---- MODULE Spec2Model ----
(***************************************************************************)
(* ZSO container codec of ziso.py: compress_zso (sequential and pooled),   *)
(* decompress_zso, the header and the block index, the file handles, the   *)
(* progress reports and the block-size option of the command line (Spec);  *)
(* and the window of ZisoGUI with its worker thread (GuiSpec).             *)
(*                                                                         *)
(* A file is a sequence of chunks.  A chunk is a run of bytes of one       *)
(* origin: the header, one index entry, (part of) a raw block, (part of)   *)
(* an LZ4 payload, padding, or bytes of unknown value.  Offsets, lengths   *)
(* and index arithmetic are the byte-exact ones of the source.             *)
(*                                                                         *)
(* TLC's integers are 32 bits wide, so the 32-bit index word of the source *)
(* (flag in bit 31) is modelled as a word of FlagBit+1 bits with the flag  *)
(* in bit FlagBit; every use of 31, 0x80000000, 0x7fffffff and 2**31 in    *)
(* the source is expressed through FlagBit.                                *)
(***************************************************************************)
EXTENDS Integers, Sequences, FiniteSets, TLC

\* ------------------------------------------------------------- bounds
\* Most blocks of an input image.
MaxBlocks == 3
\* Position of the plain flag in an index word (31 in the source).
FlagBit == 12
\* Blocks per pool batch (1024 * 16 in the source).
MP_NR == 2
\* Most files the window's list is given.
MaxFiles == 3
\* Most calls of the progress callback modelled per conversion of the window.
MaxReports == 1

\* --------------------------------------------------- program constants
ZISO_MAGIC == 1330858330
HEADER_SIZE == 24
ENTRY_SIZE == 4
DEFAULT_BLOCK_SIZE == 2048
DEFAULT_PADDING == 88
MAX_VERSION == 1

\* align_val=None
None == 0 - 1

Pow2(n) == 2 ^ n
PLAIN_FLAG == Pow2(FlagBit)
WORD_LIMIT == Pow2(FlagBit + 1)

ShiftRight(x, a) == x \div Pow2(a)
ShiftLeft(x, a) == x * Pow2(a)
\* x & 0x80000000 (non-zero or zero)
HasPlainBit(x) == (x \div PLAIN_FLAG) % 2 = 1
\* x | 0x80000000
OrPlainBit(x) == IF HasPlainBit(x) THEN x ELSE x + PLAIN_FLAG
\* x & 0x7fffffff, for a value read from a packed index word
LowBits(x) == x % PLAIN_FLAG

\* struct 'b': a byte is packed from, and unpacked to, a signed value
SignedByte(b) == IF b >= 128 THEN b - 256 ELSE b

Min(a, b) == IF a <= b THEN a ELSE b

\* -------------------------------------------------------------- bytes
\* Block contents an image is made of.  1: highly compressible,
\* 2: barely compressible, 3: incompressible.
Contents == 1 .. 3
\* lz4_compress: "high_compression" if level > 1 else "default"
Lz4Mode(level) == IF level > 1 THEN 1 ELSE 0
\* len(lz4.block.compress(plain, mode, store_size=False)) of a block of
\* content c and length bs.
CompLen(c, bs, mode) ==
    CASE c = 1 -> bs \div 255 + 13
      [] c = 2 -> IF mode = 1 THEN bs - bs \div 64 ELSE bs - bs \div 128 + 1
      [] OTHER -> bs + bs \div 255 + 16

Chunk(k, a, o, n, z) == [k |-> k, a |-> a, o |-> o, n |-> n, z |-> z]
HdrChunk(h) == Chunk("hdr", h, 0, HEADER_SIZE, HEADER_SIZE)
IdxChunk(v) == Chunk("idx", <<v>>, 0, ENTRY_SIZE, ENTRY_SIZE)
RawChunk(c, bs) == Chunk("raw", <<c>>, 0, bs, bs)
\* An LZ4 payload is named by the content, the mode and the length of the block
\* it was compressed from.
Lz4Chunk(c, bs, mode) ==
    Chunk("lz4", <<c, mode, bs>>, 0, CompLen(c, bs, mode), CompLen(c, bs, mode))
\* lz4_compress / lz4_compress_mp of a whole block read from the image
lz4_compress(plain, lv) == Lz4Chunk(plain.a[1], plain.n, Lz4Mode(lv))
PadChunk(byte, n) == Chunk("pad", <<byte>>, 0, n, n)
JunkChunk(n) == Chunk("junk", <<0>>, 0, n, n)

RECURSIVE ByteLen(_)
ByteLen(f) == IF f = <<>> THEN 0 ELSE Head(f).n + ByteLen(Tail(f))

\* The part of chunk c that lies in [from, from + size) of the chunk.
SubChunk(c, from, size) ==
    IF c.k = "pad" THEN PadChunk(c.a[1], size)
    ELSE Chunk(c.k, c.a, c.o + from, size, c.z)

\* The bytes [pos, pos + size) of f that exist.
RECURSIVE Slice(_, _, _)
Slice(f, pos, size) ==
    IF f = <<>> \/ size <= 0 THEN <<>>
    ELSE LET c == Head(f) IN
         IF pos >= c.n THEN Slice(Tail(f), pos - c.n, size)
         ELSE LET take == Min(c.n - pos, size) IN
              <<SubChunk(c, pos, take)>> \o Slice(Tail(f), 0, size - take)

\* fin.seek(offset); fin.read(size) on a buffered reader: a size of -1 reads
\* to the end of the file; the caller excludes sizes below -1.
seek_and_read(f, offset, size) ==
    IF size = -1 THEN Slice(f, offset, ByteLen(f)) ELSE Slice(f, offset, size)

\* fout.write(data): nothing is appended for an empty string.
Write(f, data) == f \o data

\* ------------------------------------------------------------- inputs
Images == UNION {[1 .. n -> Contents] : n \in 1 .. MaxBlocks}
Levels == {1, 9}
BlockSizes == {DEFAULT_BLOCK_SIZE}
\* 150: a value above the documented range, as a caller other than the
\* command line can pass.
Thresholds == {1, 95, 100, 150}
AlignVals == {None, 0, 1, 3}
PaddingBytes == {DEFAULT_PADDING, 0}
\* len(S) % block_size of an input S: none, or a partial last block.
Tails == {0, 1}
\* Inputs <<whole blocks, bytes after the last whole block>> of at least one
\* byte and at most MaxBlocks blocks, the partial one included.
Sources ==
    {<<s, 0>> : s \in Images}
    \cup {<<s, t>> : s \in UNION {[1 .. n -> Contents] : n \in 0 .. MaxBlocks - 1},
                     t \in Tails \ {0}}

\* The files the window can be given, by number; add_gio_file takes only
\* paths that end in .iso or .zso.
Files == 1 .. MaxFiles
\* os.path.splitext(filepath)[1].lower() of file f
file_ext(f) == IF f % 2 = 1 THEN ".iso" ELSE ".zso"

VARIABLES
    pc,            \* position of the driver thread
    err,           \* the exception that ended the call, "" if none
    image,         \* the input image, one content per block
    level, bsize, mp, threshold, align_val, padding_byte,
    total_bytes, align, total_block,
    index_buf, write_pos, block, fout,
    iso_data,      \* blocks of the batch read for the pool
    pending,       \* tasks of the batch the pool has not finished
    done_order,    \* tasks of the batch in the order the workers finished
    results,       \* task -> compressed block, as the workers deliver them
    zso_data_all,  \* what map_async(...).get() returned
    bi,            \* blocks of the batch committed so far
    zso,           \* the file decompress_zso reads
    d_header,      \* header fields as unpacked by read_zso_header
    d_index_buf, d_block,
    d_dec_len,     \* len(dec_data) of the last pass of the decoder loop
    d_zso_data,    \* zso_data of the last pass of the decoder loop
    edit,          \* how the file given to decompress_zso was altered
    out,           \* the file decompress_zso writes
    fin_h, fout_h, \* the handles of the running call: "none", "open", "closed"
    pool,          \* the Pool() of compress_zso: "none", "alive", "closed"
    progress_callback,  \* whether the caller passed a callback
    percent_cnt,
    calls,         \* the calls of the callback made by the running call
    stderr_lines,  \* progress lines the running call printed to sys.stderr
    tail,          \* bytes of the input after its last whole block
    fin_pos,       \* read position of compress_zso in its input
    argv,          \* the options of a command-line run, NoArgs otherwise
    dest,          \* the destination path of the last call: "absent", "old"
                   \* (what it held before the call), "new" (created or
                   \* truncated by the call)
    attempt,       \* the open of the last call if it failed, else NoAttempt
    file_list,     \* the window's list: the files queued, in order
    subtitle,      \* file -> the status text of its row
    processing,
    destination_folder,  \* whether a destination folder is selected
    threads,       \* the worker threads that exist, one record each
    idle,          \* callbacks given to GLib.idle_add and not yet run
    run_tasks,     \* the tasks gathered by the last Convert click
    worklog            \* what the workers did with each task since that click

encVars == <<image, level, bsize, mp, threshold, align_val, padding_byte,
             total_bytes, align, total_block, index_buf, write_pos, block, fout>>
poolVars == <<iso_data, pending, done_order, results, zso_data_all, bi>>
decVars == <<zso, d_header, d_index_buf, d_block, d_dec_len, d_zso_data,
             edit, out>>
resVars == <<fin_h, fout_h, pool>>
progVars == <<progress_callback, percent_cnt, calls, stderr_lines>>
inVars == <<tail, fin_pos>>
fsVars == <<dest, attempt>>
coreVars == <<pc, err, encVars, poolVars, decVars, resVars, progVars, inVars,
              argv, fsVars>>
guiVars == <<file_list, subtitle, processing, destination_folder, threads,
             idle, run_tasks, worklog>>
vars == <<coreVars, guiVars>>

\* generate_zso_header: pack('IIQIbbxx', ...); the two 'b' fields are stored
\* as bytes.
generate_zso_header(magic, header_size, tb, bs, ver, al) ==
    <<magic, header_size, tb, bs, ver % 256, al % 256>>

\* set_align: pad write_pos up to the next multiple of 1 << align.
set_align(f, wp, al, pad) ==
    IF wp % Pow2(al) # 0
    THEN LET align_len == Pow2(al) - (wp % Pow2(al)) IN
         [fout |-> Write(f, <<PadChunk(pad, align_len)>>),
          write_pos |-> wp + align_len]
    ELSE [fout |-> f, write_pos |-> wp]

\* The ratio taken the wrong way round.
AboveThresholdInverted(zlen, ilen, thr) == 100 * ilen >= thr * zlen

\* 100 * len(zso_data) / len(iso_data) >= threshold (true division)
AboveThreshold(zlen, ilen, thr) == 100 * zlen >= thr * ilen

\* The commit without the test of the flag bit of a compressed block's entry.
CommitBlockUnchecked(f, wp, ib, blk, iso, zso_data, thr, al, pad) ==
    LET a == set_align(f, wp, al, pad)
        entry == ShiftRight(a.write_pos, al)
        plain == AboveThreshold(zso_data.n, iso.n, thr)
        payload == IF plain THEN iso ELSE zso_data
    IN  [err |-> "",
         index_buf |-> [ib EXCEPT ![blk + 1] =
                            IF plain THEN OrPlainBit(entry) ELSE entry],
         fout |-> Write(a.fout, <<payload>>),
         write_pos |-> a.write_pos + payload.n,
         block |-> blk + 1]

\* The body of the commit of one block, common to both loops: align, set the
\* entry, choose plain or compressed, write the payload.
CommitBlock(f, wp, ib, blk, iso, zso_data, thr, al, pad) ==
    LET a == set_align(f, wp, al, pad)
        entry == ShiftRight(a.write_pos, al)
        plain == AboveThreshold(zso_data.n, iso.n, thr)
        overflow == ~plain /\ HasPlainBit(entry)
        payload == IF plain THEN iso ELSE zso_data
    IN  [err |-> IF overflow THEN "AlignError" ELSE "",
         index_buf |-> [ib EXCEPT ![blk + 1] =
                            IF plain THEN OrPlainBit(entry) ELSE entry],
         fout |-> IF overflow THEN a.fout ELSE Write(a.fout, <<payload>>),
         write_pos |-> IF overflow THEN a.write_pos
                       ELSE a.write_pos + payload.n,
         block |-> IF overflow THEN blk ELSE blk + 1]

\* Threshold the sequential loop compares with.
SeqThreshold(thr) == thr
\* Threshold the pool loop compares with.
MpThreshold(thr) == Min(thr, 100)

\* pack('I', i) for every entry after fout.seek(len(header)): entries are
\* written in order until one does not fit the word.
RECURSIVE WriteIndex(_, _, _)
WriteIndex(f, ib, k) ==
    IF k > Len(ib) THEN [fout |-> f, err |-> ""]
    ELSE IF ib[k] >= WORD_LIMIT THEN [fout |-> f, err |-> "StructError"]
    ELSE WriteIndex([f EXCEPT ![k + 1] = IdxChunk(ib[k])], ib, k + 1)

\* Last position (total size), then the index update.
FinishIndex(f, wp, ib, blk, al) ==
    LET ib2 == [ib EXCEPT ![blk + 1] = ShiftRight(wp, al)]
        w == WriteIndex(f, ib2, 1)
    IN  [index_buf |-> ib2, fout |-> w.fout, err |-> w.err]

NoHeader == <<0, 0, 0, 0, 0, 0>>
\* Not a command-line run.
NoArgs == [c |-> None, b |-> None, cli |-> FALSE]

\* The input of compress_zso as bytes: the whole blocks, then the partial one
\* (content 0).
InputFile(s, bs, tl) ==
    [i \in 1 .. Len(s) |-> RawChunk(s[i], bs)]
    \o (IF tl > 0 THEN <<Chunk("raw", <<0>>, 0, tl, tl)>> ELSE <<>>)

\* The output handle is created although the input could not be opened, and
\* the input handle is left open when the output cannot be created.
open_input_output_leaking(in_ok, out_ok) ==
    IF in_ok /\ out_ok THEN [fin |-> "open", fout |-> "open", err |-> ""]
    ELSE [fin |-> IF in_ok THEN "open" ELSE "none",
          fout |-> IF out_ok THEN "open" ELSE "none",
          err |-> IF in_ok THEN "CannotCreateOutput" ELSE "CannotOpenInput"]

\* open_input_output: in_ok and out_ok tell whether open(fname_in, "rb") and
\* open(fname_out, "wb") succeed.
open_input_output(in_ok, out_ok) ==
    IF ~in_ok
    THEN [fin |-> "none", fout |-> "none", err |-> "CannotOpenInput"]
    ELSE IF ~out_ok
    THEN [fin |-> "closed", fout |-> "none", err |-> "CannotCreateOutput"]
    ELSE [fin |-> "open", fout |-> "open", err |-> ""]

\* No open has failed.
NoAttempt == [in_ok |-> TRUE, out_ok |-> TRUE, before |-> "absent"]

\* The output is opened whether or not the input could be.
DestinationOutputFirst(before, in_ok, out_ok) ==
    IF out_ok THEN "new" ELSE before

\* What open_input_output leaves at the destination path: open(fname_out,
\* "wb") is reached only once the input is open, and creates or truncates the
\* file when it succeeds.
Destination(before, in_ok, out_ok) ==
    IF in_ok /\ out_ok THEN "new" ELSE before

\* fin.close() / fout.close() of the finally clause.
close(h) == "closed"

\* The period taken by integer division.
PeriodReachedFloor(cnt, tot) == cnt >= tot \div 100 /\ tot \div 100 # 0

\* percent_cnt >= percent_period and percent_period != 0, where
\* percent_period = total_block/100 (true division).
PeriodReached(cnt, tot) == 100 * cnt >= tot /\ tot # 0

\* progress_callback(block, total_block, write_pos) of compress_zso; `written`
\* is the length of the output at the time of the call.
EncoderCall(blk, tot, wp, f) ==
    [done |-> blk, total |-> tot, write_pos |-> wp, written |-> ByteLen(f)]

\* The callback is given the number of the next block.
DecoderCallNext(blk, tot, o) ==
    [done |-> blk + 1, total |-> tot, written |-> ByteLen(o)]

\* progress_callback(block, total_block) of decompress_zso; `written` is the
\* length of the output at the time of the call.
DecoderCall(blk, tot, o) ==
    [done |-> blk, total |-> tot, written |-> ByteLen(o)]

\* The callback called twice in a pass.
LoopTopRepeating(cb, cnt, inc, tot, log, call, lines) ==
    [percent_cnt |-> cnt + inc,
     calls |-> IF cb THEN log \o <<call, call>> ELSE log,
     stderr_lines |-> lines]

\* The top of a pass of either loop: percent_cnt advances by inc, then the
\* callback is called if there is one, else a line is printed when the
\* period is reached.
LoopTop(cb, cnt, inc, tot, log, call, lines) ==
    LET c == cnt + inc
        print == ~cb /\ PeriodReached(c, tot)
    IN  [percent_cnt |-> IF print THEN 0 ELSE c,
         calls |-> IF cb THEN Append(log, call) ELSE log,
         stderr_lines |-> IF print THEN lines + 1 ELSE lines]

\* align_val is not looked at.
ChooseAlignAuto(tb, av) == tb \div PLAIN_FLAG

\* align = total_bytes // 2 ** 31 unless align_val is given
ChooseAlign(tb, av) == IF av = None THEN tb \div PLAIN_FLAG ELSE av

\* The output once the header and the zeroed index table are written.
StartFile(tb, bs, al) ==
    Write(Write(<<>>, <<HdrChunk(generate_zso_header(ZISO_MAGIC, HEADER_SIZE,
                                                      tb, bs, 1, al))>>),
          [i \in 1 .. tb \div bs + 1 |-> IdxChunk(0)])

Init ==
    /\ pc = "idle" /\ err = ""
    /\ image = <<>> /\ level = 0 /\ bsize = 0 /\ mp = FALSE /\ threshold = 0
    /\ align_val = None /\ padding_byte = 0
    /\ total_bytes = 0 /\ align = 0 /\ total_block = 0
    /\ index_buf = <<>> /\ write_pos = 0 /\ block = 0 /\ fout = <<>>
    /\ iso_data = <<>> /\ pending = {} /\ done_order = <<>>
    /\ results = <<>> /\ zso_data_all = <<>> /\ bi = 0
    /\ zso = <<>> /\ d_header = NoHeader /\ d_index_buf = <<>> /\ d_block = 0
    /\ d_dec_len = None /\ d_zso_data = <<>> /\ edit = [f |-> 0, v |-> 0]
    /\ out = <<>>
    /\ fin_h = "none" /\ fout_h = "none" /\ pool = "none"
    /\ progress_callback = FALSE /\ percent_cnt = 0 /\ calls = <<>>
    /\ stderr_lines = 0
    /\ tail = 0 /\ fin_pos = 0
    /\ argv = NoArgs
    /\ dest = "absent" /\ attempt = NoAttempt
    /\ file_list = <<>> /\ subtitle = [f \in Files |-> ""]
    /\ processing = FALSE /\ destination_folder = FALSE
    /\ threads = <<>> /\ idle = <<>> /\ run_tasks = <<>> /\ worklog = <<>>

\* compress_zso up to the loop: sizes, align, header, zeroed index, pool.
\* A negative block size does not fit the header (pack 'I'), and a block
\* size of 0 divides by zero once the header is written; either error leaves
\* through the finally clause.
CompressBegin(src, lv, bs, m, th, av, pb, cb) ==
    LET s == src[1]
        tb == ByteLen(InputFile(s, IF bs > 0 THEN bs ELSE DEFAULT_BLOCK_SIZE,
                                src[2]))
        al == ChooseAlign(tb, av)
        n == IF bs > 0 THEN tb \div bs ELSE 0
        hdr == <<HdrChunk(generate_zso_header(ZISO_MAGIC, HEADER_SIZE, tb, bs,
                                              1, al))>>
        f == IF bs > 0 THEN StartFile(tb, bs, al)
             ELSE IF bs = 0 THEN Write(<<>>, hdr) ELSE <<>>
    IN  /\ image' = s /\ level' = lv /\ bsize' = bs /\ mp' = m
        /\ threshold' = th /\ align_val' = av /\ padding_byte' = pb
        /\ total_bytes' = tb /\ align' = al /\ total_block' = n
        /\ index_buf' = IF bs > 0 THEN [i \in 1 .. n + 1 |-> 0] ELSE <<>>
        /\ fout' = f
        /\ write_pos' = IF bs > 0 THEN ByteLen(f) ELSE 0
        /\ block' = 0
        /\ tail' = src[2] /\ fin_pos' = 0
        /\ progress_callback' = cb
        /\ pool' = IF m /\ bs > 0 THEN "alive" ELSE "none"
        /\ fin_h' = IF bs > 0 THEN open_input_output(TRUE, TRUE).fin
                    ELSE close(open_input_output(TRUE, TRUE).fin)
        /\ fout_h' = IF bs > 0 THEN open_input_output(TRUE, TRUE).fout
                     ELSE close(open_input_output(TRUE, TRUE).fout)
        /\ percent_cnt' = 0 /\ calls' = <<>> /\ stderr_lines' = 0
        /\ err' = IF bs > 0 THEN err
                  ELSE IF bs = 0 THEN "ZeroDivisionError" ELSE "StructError"
        /\ pc' = IF bs > 0 THEN "c_loop" ELSE "c_err"
        /\ dest' = Destination(dest, TRUE, TRUE) /\ attempt' = NoAttempt
        /\ UNCHANGED <<poolVars, decVars, guiVars>>

\* compress_zso called by a program (as the window's worker does) with a
\* block size of the format.
CompressStart ==
    /\ pc = "idle"
    /\ \E src \in Sources, lv \in Levels, bs \in BlockSizes, m \in BOOLEAN,
          th \in Thresholds, av \in AlignVals, pb \in PaddingBytes,
          cb \in BOOLEAN :
         CompressBegin(src, lv, bs, m, th, av, pb, cb)
    /\ UNCHANGED argv

\* Values given to the options -c and -b on the command line; None: option
\* absent.
CliLevels == {None, 9}
CliBlockSizes == {None, 0 - 2048, 0, 1000, 2048, 4096, 10240}

\* bsize % 2048 != 0, the only test parse_args makes of the block size.
BlockSizeRejected(b) == b % 2048 # 0

\* parse_args for the options -c and -b, the other options left out.
parse_args(c, b) ==
    LET bs == IF b = None THEN DEFAULT_BLOCK_SIZE ELSE b IN
    IF c = None THEN [exit |-> TRUE, err |-> "MissingLevel"]
    ELSE IF BlockSizeRejected(bs)
    THEN [exit |-> TRUE, err |-> "InvalidBlockSize"]
    ELSE [exit |-> FALSE, err |-> "", level |-> c, bsize |-> bs, mp |-> FALSE,
          threshold |-> 95, align |-> None, padding |-> DEFAULT_PADDING]

\* main() of a command-line run: parse_args, which may end the process.
ParseArgs ==
    /\ pc = "idle"
    /\ \E c \in CliLevels, b \in CliBlockSizes :
         LET r == parse_args(c, b) IN
         /\ argv' = [c |-> c, b |-> b, cli |-> TRUE]
         /\ err' = r.err
         /\ IF r.exit
            THEN /\ pc' = "cli_exit"
                 /\ UNCHANGED encVars
            ELSE /\ pc' = "cli_parsed"
                 /\ level' = r.level /\ bsize' = r.bsize /\ mp' = r.mp
                 /\ threshold' = r.threshold /\ align_val' = r.align
                 /\ padding_byte' = r.padding
                 /\ UNCHANGED <<image, total_bytes, align, total_block,
                                index_buf, write_pos, block, fout>>
    /\ UNCHANGED <<poolVars, decVars, resVars, progVars, inVars,
                   fsVars, guiVars>>

\* main() then calls compress_zso with what parse_args returned, and no
\* callback.
CliCompress ==
    /\ pc = "cli_parsed"
    /\ \E src \in Sources :
         CompressBegin(src, level, bsize, mp, threshold, align_val,
                       padding_byte, FALSE)
    /\ UNCHANGED argv

\* open_input_output of either call fails: the call ends before its try.
\* The destination path may or may not exist beforehand.
OpenFails ==
    /\ pc \in {"idle", "cli_parsed", "c_done"}
    /\ \E in_ok, out_ok \in BOOLEAN, before \in {"absent", "old"} :
         LET o == open_input_output(in_ok, out_ok) IN
         /\ o.err # ""
         /\ fin_h' = o.fin /\ fout_h' = o.fout /\ err' = o.err
         /\ dest' = Destination(before, in_ok, out_ok)
         /\ attempt' = [in_ok |-> in_ok, out_ok |-> out_ok, before |-> before]
    /\ pc' = IF pc = "c_done" THEN "d_ioerr" ELSE "c_ioerr"
    /\ UNCHANGED <<encVars, poolVars, decVars, pool, progVars, inVars, argv,
                   guiVars>>

\* fin.read(size) at the current position of the input.
fin_read(f, pos, size) == Slice(f, pos, size)

\* What becomes of the pool when compress_zso ends.  compress_zso calls
\* neither pool.close() nor pool.terminate(): the pool ends only if the
\* collector finalises it once the frame is released, which the traceback of
\* an exception prevents.
PoolAtExit(p, failed) ==
    IF p = "alive" /\ ~failed THEN {"alive", "closed"} ELSE {p}

\* One pass of the sequential loop body.
SeqBlock ==
    /\ pc = "c_loop" /\ ~mp /\ block < total_block
    /\ LET top == LoopTop(progress_callback, percent_cnt, 1, total_block, calls,
                          EncoderCall(block, total_block, write_pos, fout),
                          stderr_lines)
           iso == Head(fin_read(InputFile(image, bsize, tail), fin_pos, bsize))
           zso_data == lz4_compress(iso, level)
           r == CommitBlock(fout, write_pos, index_buf, block, iso, zso_data,
                            SeqThreshold(threshold), align, padding_byte)
       IN  /\ percent_cnt' = top.percent_cnt /\ calls' = top.calls
           /\ stderr_lines' = top.stderr_lines
           /\ fin_pos' = fin_pos + iso.n
           /\ index_buf' = r.index_buf /\ fout' = r.fout
           /\ write_pos' = r.write_pos /\ block' = r.block
           /\ err' = r.err
           /\ pc' = IF r.err = "" THEN "c_loop" ELSE "c_err"
           /\ fin_h' = IF r.err = "" THEN fin_h ELSE close(fin_h)
           /\ fout_h' = IF r.err = "" THEN fout_h ELSE close(fout_h)
    /\ UNCHANGED <<image, level, bsize, mp, threshold, align_val, padding_byte,
                   total_bytes, align, total_block, poolVars, decVars,
                   pool, progress_callback, tail, argv,
                   fsVars, guiVars>>

\* After the loop: sentinel and index write-back, then the finally clause.
CompressFinish ==
    /\ pc = "c_loop" /\ block >= total_block
    /\ LET r == FinishIndex(fout, write_pos, index_buf, block, align)
       IN  /\ index_buf' = r.index_buf /\ fout' = r.fout /\ err' = r.err
           /\ pc' = IF r.err = "" THEN "c_done" ELSE "c_err"
           /\ pool' \in PoolAtExit(pool, r.err # "")
    /\ fin_h' = close(fin_h) /\ fout_h' = close(fout_h)
    /\ UNCHANGED <<image, level, bsize, mp, threshold, align_val, padding_byte,
                   total_bytes, align, total_block, write_pos, block,
                   poolVars, decVars, progVars, inVars, argv,
                   fsVars, guiVars>>

\* The pool loop reads the blocks of one batch and hands them to the pool.
MpDispatch ==
    /\ pc = "c_loop" /\ mp /\ block < total_block
    /\ LET n == Min(total_block - block, MP_NR)
           top == LoopTop(progress_callback, percent_cnt, n, total_block, calls,
                          EncoderCall(block, total_block, write_pos, fout),
                          stderr_lines)
       IN
         /\ percent_cnt' = top.percent_cnt /\ calls' = top.calls
         /\ stderr_lines' = top.stderr_lines
         /\ iso_data' = [i \in 1 .. n |->
                           Head(fin_read(InputFile(image, bsize, tail),
                                         fin_pos + (i - 1) * bsize, bsize))]
         /\ fin_pos' = fin_pos + n * bsize
         /\ pending' = 1 .. n
    /\ done_order' = <<>> /\ results' = <<>> /\ zso_data_all' = <<>> /\ bi' = 0
    /\ pc' = "c_wait"
    /\ UNCHANGED <<err, encVars, decVars, resVars, progress_callback, tail, argv,
                   fsVars, guiVars>>

\* A pool worker finishes one task of the batch; any task may finish next.
WorkerFinish ==
    /\ pc = "c_wait"
    /\ \E i \in pending :
         /\ results' = results @@ (i :> lz4_compress(iso_data[i], level))
         /\ pending' = pending \ {i}
         /\ done_order' = Append(done_order, i)
    /\ UNCHANGED <<pc, err, encVars, decVars, iso_data, zso_data_all, bi,
                   resVars, progVars, inVars, argv,
                   fsVars, guiVars>>

\* The results in the order the workers finished.
MapResultsAsCompleted(res, order) == [i \in 1 .. Len(order) |-> res[order[i]]]

\* map_async(...).get(): the results in the order of the tasks submitted.
MapResults(res, order) == [i \in 1 .. Len(order) |-> res[i]]

\* get() returns once every task of the batch is done.
MpCollect ==
    /\ pc = "c_wait" /\ pending = {}
    /\ zso_data_all' = MapResults(results, done_order)
    /\ bi' = 0
    /\ pc' = "c_commit"
    /\ UNCHANGED <<err, encVars, decVars, iso_data, pending, done_order, results,
                   resVars, progVars, inVars, argv,
                   fsVars, guiVars>>

\* One pass of the loop over the results of the batch.
MpCommit ==
    /\ pc = "c_commit" /\ bi < Len(zso_data_all)
    /\ LET r == CommitBlock(fout, write_pos, index_buf, block, iso_data[bi + 1],
                            zso_data_all[bi + 1], MpThreshold(threshold),
                            align, padding_byte)
       IN  /\ index_buf' = r.index_buf /\ fout' = r.fout
           /\ write_pos' = r.write_pos /\ block' = r.block
           /\ err' = r.err
           /\ pc' = IF r.err # "" THEN "c_err"
                    ELSE IF bi + 1 = Len(zso_data_all) THEN "c_loop"
                    ELSE "c_commit"
           /\ fin_h' = IF r.err = "" THEN fin_h ELSE close(fin_h)
           /\ fout_h' = IF r.err = "" THEN fout_h ELSE close(fout_h)
    /\ bi' = bi + 1
    /\ UNCHANGED <<image, level, bsize, mp, threshold, align_val, padding_byte,
                   total_bytes, align, total_block, decVars,
                   iso_data, pending, done_order, results, zso_data_all,
                   pool, progVars, inVars, argv,
                   fsVars, guiVars>>

\* The index update stopped after k entries: entries 0 .. k-1 of the table in
\* the file are those of ib, the others what they were.
WriteIndexUpTo(f, ib, k) ==
    [j \in 1 .. Len(f) |-> IF j \in 2 .. k + 1 THEN IdxChunk(ib[j - 1]) ELSE f[j]]

\* A read of the input or a write of the output fails in compress_zso: the
\* error leaves through the finally clause.  In the loop head the failing read
\* comes after the callback of the pass.  After the loop the failing call is
\* the seek or the write of an entry of the index update, the entries before
\* it being written.
EncodeIoError ==
    /\ pc \in {"c_loop", "c_commit"}
    /\ LET top == IF pc = "c_loop" /\ block < total_block
                  THEN LoopTop(progress_callback, percent_cnt,
                               IF mp THEN Min(total_block - block, MP_NR) ELSE 1,
                               total_block, calls,
                               EncoderCall(block, total_block, write_pos, fout),
                               stderr_lines)
                  ELSE [percent_cnt |-> percent_cnt, calls |-> calls,
                        stderr_lines |-> stderr_lines]
       IN  /\ percent_cnt' = top.percent_cnt /\ calls' = top.calls
           /\ stderr_lines' = top.stderr_lines
    /\ IF pc = "c_loop" /\ block >= total_block
       THEN LET ib2 == [index_buf EXCEPT ![block + 1] =
                          ShiftRight(write_pos, align)]
            IN  /\ index_buf' = ib2
                /\ \E k \in 0 .. Len(ib2) - 1 :
                     /\ \A j \in 1 .. k : ib2[j] < WORD_LIMIT
                     /\ fout' = WriteIndexUpTo(fout, ib2, k)
       ELSE UNCHANGED <<index_buf, fout>>
    /\ err' = "IoError" /\ pc' = "c_ioerr"
    /\ fin_h' = close(fin_h) /\ fout_h' = close(fout_h)
    /\ UNCHANGED <<image, level, bsize, mp, threshold, align_val, padding_byte,
                   total_bytes, align, total_block, write_pos, block,
                   poolVars, decVars, pool, progress_callback, inVars, argv,
                   fsVars, guiVars>>

\* ------------------------------------------------------------ decoder
\* Files decompress_zso is given: the file compress_zso produced, as it is or
\* with one header field overwritten or its last bytes cut off.
\* f: 0 none, 1 magic, 2 header_size, 3 total_bytes, 4 block_size, 5 version
\* byte, 7 cut v bytes, 8 cut what was written last (the payload of the
\* last block, if there is a block).
Edits ==
    {[f |-> 0, v |-> 0], [f |-> 1, v |-> 0], [f |-> 2, v |-> 32],
     [f |-> 3, v |-> 0], [f |-> 4, v |-> 0], [f |-> 7, v |-> 1],
     [f |-> 8, v |-> 0]}
    \cup {[f |-> 5, v |-> x] : x \in {0, 2, 128, 255}}

ApplyEdit(f, e) ==
    IF e.f = 0 THEN f
    ELSE IF e.f = 7 THEN Slice(f, 0, ByteLen(f) - e.v)
    ELSE IF e.f = 8 THEN SubSeq(f, 1, Len(f) - 1)
    ELSE [f EXCEPT ![1] = HdrChunk([f[1].a EXCEPT ![e.f] = e.v])]

\* read_zso_header: unpack('IIQIbbxx', first 0x18 bytes)
read_zso_header(f) ==
    LET data == seek_and_read(f, 0, HEADER_SIZE)
        h == data[1].a
    IN  <<h[1], h[2], h[3], h[4], SignedByte(h[5]), SignedByte(h[6])>>

HMagic(h) == h[1]
HHeaderSize(h) == h[2]
HTotalBytes(h) == h[3]
HBlockSize(h) == h[4]
HVer(h) == h[5]
HAlign(h) == h[6]

\* The test of line 107.
HeaderRejected(h) ==
    \/ HMagic(h) # ZISO_MAGIC
    \/ HBlockSize(h) = 0
    \/ HTotalBytes(h) = 0
    \/ HHeaderSize(h) # HEADER_SIZE
    \/ HVer(h) > MAX_VERSION

\* unpack('I', fin.read(4)) for entry k (from 0) of the table.
ReadEntry(f, k) ==
    LET w == Slice(f, HEADER_SIZE + ENTRY_SIZE * k, ENTRY_SIZE)
    IN  IF ByteLen(w) < ENTRY_SIZE THEN None
        ELSE IF Len(w) = 1 /\ w[1].k = "idx" /\ w[1].o = 0 THEN w[1].a[1]
        ELSE 0

\* decompress_zso up to the loop: header, validation, index table.
DecompressStart ==
    /\ pc = "c_done"
    /\ \E e \in Edits :
         LET file == ApplyEdit(fout, e)
             h == read_zso_header(file)
             n == HTotalBytes(h) \div HBlockSize(h)
             idx == [k \in 1 .. n + 1 |-> ReadEntry(file, k - 1)]
         IN  /\ zso' = file
             /\ d_header' = h
             /\ edit' = e
             /\ IF HeaderRejected(h)
                THEN /\ err' = "FormatError" /\ pc' = "d_err"
                     /\ d_index_buf' = <<>>
                ELSE IF \E k \in 1 .. n + 1 : idx[k] = None
                THEN /\ err' = "StructError" /\ pc' = "d_err"
                     /\ d_index_buf' = <<>>
                ELSE /\ err' = "" /\ pc' = "d_loop"
                     /\ d_index_buf' = idx
    /\ fin_h' = IF pc' = "d_err" THEN close(open_input_output(TRUE, TRUE).fin)
                ELSE open_input_output(TRUE, TRUE).fin
    /\ fout_h' = IF pc' = "d_err" THEN close(open_input_output(TRUE, TRUE).fout)
                 ELSE open_input_output(TRUE, TRUE).fout
    /\ d_block' = 0 /\ out' = <<>> /\ d_dec_len' = None /\ d_zso_data' = <<>>
    /\ percent_cnt' = 0 /\ calls' = <<>> /\ stderr_lines' = 0
    /\ dest' = Destination(dest, TRUE, TRUE) /\ attempt' = NoAttempt
    /\ UNCHANGED <<encVars, poolVars, pool, progress_callback, inVars, argv,
                   guiVars>>

\* lz4_decompress(compressed, block_size): what the retry loop can end in.
\* "hang" is the loop never leaving; otherwise the buffer returned.
\*  - the slice begins with a whole payload of a block of block_size bytes:
\*    LZ4 rejects every longer prefix (the input is not consumed exactly when
\*    the output is full) and accepts the payload, giving the block back;
\*  - the slice is empty: LZ4 rejects it and compressed[:-1] is empty again;
\*  - the slice is a cut payload: no prefix gives block_size bytes; a prefix
\*    that ends with a literal run is accepted and gives fewer bytes.  The
\*    payload of an incompressible block (content 3) is one literal run, so
\*    none of its proper prefixes is accepted; that of a highly compressible
\*    block (content 1) begins with a short one, so one of its prefixes of two
\*    bytes or more is;
\*  - any other bytes: LZ4 may reject every prefix or accept one.
Lz4Outcomes(compressed, bs) ==
    IF compressed = <<>> THEN {"hang"}
    ELSE LET c == compressed[1] IN
         IF c.k = "lz4" /\ c.o = 0 /\ c.n = c.z /\ c.a[3] = bs
         THEN {<<RawChunk(c.a[1], bs)>>}
         ELSE IF c.k = "lz4" /\ c.o = 0 /\ Len(compressed) = 1
         THEN IF c.a[1] = 3 \/ c.n < 2 THEN {"hang"}
              ELSE IF c.a[1] = 1
              THEN {<<Chunk("raw", <<c.a[1]>>, 0, 1, c.a[3])>>}
              ELSE {"hang", <<Chunk("raw", <<c.a[1]>>, 0, 1, c.a[3])>>}
         ELSE {"hang", <<JunkChunk(1)>>, <<JunkChunk(bs)>>}

\* read_pos and read_size of the pass for block blk (from 0), from the header
\* h and the index table ib read from the file.
ReadWindow(h, ib, blk) ==
    LET entry == ib[blk + 1]
        plain == HasPlainBit(entry)
        index == LowBits(entry)
        read_pos == ShiftLeft(index, HAlign(h))
        index2 == LowBits(ib[blk + 2])
    IN  [read_pos |-> read_pos,
         read_size |-> IF plain THEN HBlockSize(h)
                       ELSE IF blk = HTotalBytes(h) \div HBlockSize(h) - 1
                       THEN HTotalBytes(h) - read_pos
                       ELSE ShiftLeft(index2 - index, HAlign(h))]

\* The length check left out.
LengthUnchecked(dec_data, block_size) == TRUE

\* len(dec_data) != block_size is the error of line 150.
LengthOk(dec_data, block_size) == ByteLen(dec_data) = block_size

\* One pass of the decoder loop.
DecodeBlock ==
    /\ pc = "d_loop" /\ d_block < HTotalBytes(d_header) \div HBlockSize(d_header)
    /\ LET block_size == HBlockSize(d_header)
           tb == HTotalBytes(d_header)
           al == HAlign(d_header)
           n == tb \div block_size
           plain == HasPlainBit(d_index_buf[d_block + 1])
           w == ReadWindow(d_header, d_index_buf, d_block)
           read_pos == w.read_pos
           read_size == w.read_size
           zso_data == seek_and_read(zso, read_pos, read_size)
           outcomes == IF plain THEN {zso_data}
                       ELSE Lz4Outcomes(zso_data, block_size)
           top == LoopTop(progress_callback, percent_cnt, 1, n, calls,
                          DecoderCall(d_block, n, out), stderr_lines)
       IN  /\ percent_cnt' = top.percent_cnt /\ calls' = top.calls
           /\ stderr_lines' = top.stderr_lines
           /\ d_zso_data' = IF read_size < -1 THEN d_zso_data ELSE zso_data
           /\ IF read_size < -1
              THEN /\ err' = "ValueError" /\ pc' = "d_err"
                   /\ UNCHANGED <<out, d_block, d_dec_len>>
              ELSE \E dec_data \in outcomes :
                     IF dec_data = "hang"
                     THEN /\ pc' = "d_hang"
                          /\ UNCHANGED <<err, out, d_block, d_dec_len>>
                     ELSE /\ d_dec_len' = ByteLen(dec_data)
                          /\ IF ~LengthOk(dec_data, block_size)
                             THEN /\ err' = "BlockError" /\ pc' = "d_err"
                                  /\ UNCHANGED <<out, d_block>>
                             ELSE /\ out' = Write(out, dec_data)
                                  /\ d_block' = d_block + 1
                                  /\ UNCHANGED <<pc, err>>
    /\ fin_h' = IF pc' = "d_err" THEN close(fin_h) ELSE fin_h
    /\ fout_h' = IF pc' = "d_err" THEN close(fout_h) ELSE fout_h
    /\ UNCHANGED <<encVars, poolVars, zso, d_header, d_index_buf, edit,
                   pool, progress_callback, inVars, argv,
                   fsVars, guiVars>>

\* The loop ends and the call returns through the finally clause.
DecompressReturn ==
    /\ pc = "d_loop" /\ d_block >= HTotalBytes(d_header) \div HBlockSize(d_header)
    /\ pc' = "d_done"
    /\ fin_h' = close(fin_h) /\ fout_h' = close(fout_h)
    /\ UNCHANGED <<err, encVars, poolVars, decVars, pool, progVars, inVars, argv,
                   fsVars, guiVars>>

\* A read of the input or a write of the output fails in a pass of the loop
\* of decompress_zso, after the callback of the pass.
DecodeIoError ==
    /\ pc = "d_loop" /\ d_block < HTotalBytes(d_header) \div HBlockSize(d_header)
    /\ LET n == HTotalBytes(d_header) \div HBlockSize(d_header)
           top == LoopTop(progress_callback, percent_cnt, 1, n, calls,
                          DecoderCall(d_block, n, out), stderr_lines)
       IN  /\ percent_cnt' = top.percent_cnt /\ calls' = top.calls
           /\ stderr_lines' = top.stderr_lines
    /\ err' = "IoError" /\ pc' = "d_ioerr"
    /\ fin_h' = close(fin_h) /\ fout_h' = close(fout_h)
    /\ UNCHANGED <<encVars, poolVars, decVars, pool, progress_callback, inVars, argv,
                   fsVars, guiVars>>

Next ==
    \/ CompressStart \/ SeqBlock \/ MpDispatch \/ WorkerFinish \/ MpCollect
    \/ MpCommit \/ CompressFinish \/ EncodeIoError
    \/ DecompressStart \/ DecodeBlock \/ DecompressReturn \/ DecodeIoError
    \/ OpenFails \/ ParseArgs \/ CliCompress

Spec == Init /\ [][Next]_vars

\* ------------------------------------------------------------- window
\* The window of ZisoGUI: the list of files, the Convert button, the worker
\* thread it starts and the callbacks the worker hands to the main loop.

\* Formats of the format toggle.
Formats == {"zso", "iso"}

\* A callback queued by GLib.idle_add: update_row_starting, update_row_progress,
\* update_row_status (with its text) or finish_processing.
IdleCall(cb, f, text) == [cb |-> cb, f |-> f, text |-> text]

\* How a call of compress_zso or decompress_zso by the worker can end, named
\* by the position the call ends in: returned, raised, or never left
\* lz4_decompress.
ConvertOutcomes(fn) ==
    IF fn = "compress_zso" THEN {"c_done", "c_err", "c_ioerr"}
    ELSE {"d_done", "d_err", "d_ioerr", "d_hang"}
Raises(o) == o \in {"c_err", "c_ioerr", "d_err", "d_ioerr"}
Hangs(o) == o = "d_hang"

\* The test of the extension against the target format in process_queue_safe.
AlreadyTarget(fmt, ext) ==
    (fmt = "zso" /\ ext = ".zso") \/ (fmt = "iso" /\ ext = ".iso")

\* get_tasks: the rows of the list, in order, as they are at the click.
get_tasks(rows) == rows

\* The sequence s without its element k.
RemoveAt(s, k) == SubSeq(s, 1, k - 1) \o SubSeq(s, k + 1, Len(s))

\* add_file_to_list: a path not yet in the list gets a row, "Pending".  Files
\* can be added while a conversion runs.
add_file_to_list ==
    /\ \E f \in Files :
         /\ \A k \in 1 .. Len(file_list) : file_list[k] # f
         /\ file_list' = Append(file_list, f)
         /\ subtitle' = [subtitle EXCEPT ![f] = "Pending"]
    /\ UNCHANGED <<coreVars, processing, destination_folder, threads, idle,
                   run_tasks, worklog>>

\* remove_row: the remove button of a row; nothing while processing.
remove_row ==
    /\ \E k \in 1 .. Len(file_list) :
         IF processing THEN UNCHANGED <<file_list, subtitle>>
         ELSE /\ file_list' = RemoveAt(file_list, k)
              /\ subtitle' = [subtitle EXCEPT ![file_list[k]] = ""]
    /\ UNCHANGED <<coreVars, processing, destination_folder, threads, idle,
                   run_tasks, worklog>>

\* on_clear: every row is removed; nothing while processing.
on_clear ==
    /\ file_list # <<>>
    /\ IF processing THEN UNCHANGED <<file_list, subtitle>>
       ELSE /\ file_list' = <<>>
            /\ subtitle' = [f \in Files |-> ""]
    /\ UNCHANGED <<coreVars, processing, destination_folder, threads, idle,
                   run_tasks, worklog>>

\* on_select_dest_folder: a folder is chosen.
on_select_dest_folder ==
    /\ ~destination_folder
    /\ destination_folder' = TRUE
    /\ UNCHANGED <<coreVars, file_list, subtitle, processing, threads, idle,
                   run_tasks, worklog>>

\* The guard left out.
ClickIgnoredNever(p) == FALSE

\* if self.processing: return
ClickIgnored(p) == p

\* on_convert_clicked.  The button is sensitive when there are files and a
\* destination and nothing is processing; the handler is also taken to be
\* called while processing, which its first line provides for.
on_convert_clicked ==
    /\ processing \/ (file_list # <<>> /\ destination_folder)
    /\ IF ClickIgnored(processing)
       THEN UNCHANGED <<processing, threads, run_tasks, worklog>>
       ELSE /\ processing' = TRUE
            /\ \E fmt \in Formats :
                 threads' = Append(threads,
                                   [tasks |-> get_tasks(file_list), fmt |-> fmt,
                                    i |-> 1, st |-> "loop", reports |-> 0])
            /\ run_tasks' = get_tasks(file_list)
            /\ worklog' = <<>>
    /\ UNCHANGED <<coreVars, file_list, subtitle, destination_folder, idle>>

\* process_queue_safe, a task whose extension is the target format: "Ignored"
\* and continue.
QueueSkip ==
    /\ \E k \in 1 .. Len(threads) :
         LET t == threads[k] IN
         /\ t.st = "loop" /\ t.i <= Len(t.tasks)
         /\ AlreadyTarget(t.fmt, file_ext(t.tasks[t.i]))
         /\ idle' = Append(idle, IdleCall("status", t.tasks[t.i], "Ignored"))
         /\ threads' = [threads EXCEPT ![k].i = t.i + 1]
         /\ worklog' = Append(worklog, [f |-> t.tasks[t.i], fmt |-> t.fmt,
                                        fn |-> "", out |-> ""])
    /\ UNCHANGED <<coreVars, file_list, subtitle, processing,
                   destination_folder, run_tasks>>

\* process_queue_safe, any other task: update_row_starting is queued and the
\* converter for the target format is called.
QueueBegin ==
    /\ \E k \in 1 .. Len(threads) :
         LET t == threads[k] IN
         /\ t.st = "loop" /\ t.i <= Len(t.tasks)
         /\ ~AlreadyTarget(t.fmt, file_ext(t.tasks[t.i]))
         /\ idle' = Append(idle, IdleCall("starting", t.tasks[t.i], "0%"))
         /\ threads' = [threads EXCEPT ![k].st = "conv"]
         /\ worklog' = Append(worklog, [f |-> t.tasks[t.i], fmt |-> t.fmt,
                                fn |-> IF t.fmt = "zso" THEN "compress_zso"
                                       ELSE "decompress_zso",
                                out |-> ""])
    /\ UNCHANGED <<coreVars, file_list, subtitle, processing,
                   destination_folder, run_tasks>>

\* progress_cb, called by the converter at the head of a pass.
QueueProgress ==
    /\ \E k \in 1 .. Len(threads) :
         LET t == threads[k] IN
         /\ t.st = "conv" /\ t.reports < MaxReports
         /\ idle' = Append(idle, IdleCall("progress", t.tasks[t.i], "pct"))
         /\ threads' = [threads EXCEPT ![k].reports = t.reports + 1]
    /\ UNCHANGED <<coreVars, file_list, subtitle, processing,
                   destination_folder, run_tasks, worklog>>

\* The last entry of the log that is about file f.
LastOf(lg, f) ==
    CHOOSE j \in 1 .. Len(lg) :
      lg[j].f = f /\ \A j2 \in j + 1 .. Len(lg) : lg[j2].f # f

\* The converter returns ("Completed"), raises ("Error", caught by the
\* except clause) or never returns.
QueueConvert ==
    /\ \E k \in 1 .. Len(threads) :
         LET t == threads[k]
             f == t.tasks[t.i]
         IN
         /\ t.st = "conv"
         /\ \E o \in ConvertOutcomes(worklog[LastOf(worklog, f)].fn) :
              /\ worklog' = [worklog EXCEPT ![LastOf(worklog, f)].out = o]
              /\ IF Hangs(o)
                 THEN /\ threads' = [threads EXCEPT ![k].st = "hung"]
                      /\ UNCHANGED idle
                 ELSE /\ idle' = Append(idle,
                                        IdleCall("status", f,
                                                 IF Raises(o) THEN "Error"
                                                 ELSE "Completed"))
                      /\ threads' = [threads EXCEPT ![k].i = t.i + 1,
                                                    ![k].st = "loop",
                                                    ![k].reports = 0]
    /\ UNCHANGED <<coreVars, file_list, subtitle, processing,
                   destination_folder, run_tasks>>

\* After the loop finish_processing is queued and the thread ends.
QueueExit ==
    /\ \E k \in 1 .. Len(threads) :
         LET t == threads[k] IN
         /\ t.st = "loop" /\ t.i > Len(t.tasks)
         /\ idle' = Append(idle, IdleCall("finish", 0, ""))
         /\ threads' = RemoveAt(threads, k)
    /\ UNCHANGED <<coreVars, file_list, subtitle, processing,
                   destination_folder, run_tasks, worklog>>

\* The main loop runs the oldest queued callback: update_row_starting,
\* update_row_progress and update_row_status set the subtitle of the row,
\* finish_processing clears processing.
IdleRun ==
    /\ idle # <<>>
    /\ LET c == Head(idle) IN
       IF c.cb = "finish"
       THEN /\ processing' = FALSE
            /\ UNCHANGED subtitle
       ELSE /\ subtitle' = [subtitle EXCEPT ![c.f] = c.text]
            /\ UNCHANGED processing
    /\ idle' = Tail(idle)
    /\ UNCHANGED <<coreVars, file_list, destination_folder, threads,
                   run_tasks, worklog>>

process_queue_safe == QueueSkip \/ QueueBegin \/ QueueConvert \/ QueueExit

GuiNext ==
    \/ add_file_to_list \/ remove_row \/ on_clear \/ on_select_dest_folder
    \/ on_convert_clicked
    \/ QueueSkip \/ QueueBegin \/ QueueProgress \/ QueueConvert \/ QueueExit
    \/ IdleRun

\* The worker thread is scheduled and the main loop runs queued callbacks.
GuiSpec ==
    Init /\ [][GuiNext]_vars
    /\ WF_vars(process_queue_safe) /\ WF_vars(IdleRun)

\* ------------------------------------------------------------- claims
InDecode == pc \in {"d_loop", "d_done", "d_err", "d_hang"}
Produced == pc = "c_done" \/ InDecode
Unedited == edit.f = 0
DocumentedThreshold == threshold \in 1 .. 100

\* The whole blocks of the input image as bytes.
ImageBytes == [i \in 1 .. Len(image) |-> RawChunk(image[i], bsize)]

\* The payloads of a file in file order, each with its physical offset.
RECURSIVE Payloads(_, _)
Payloads(f, off) ==
    IF f = <<>> THEN <<>>
    ELSE LET c == Head(f) IN
         (IF c.k \in {"raw", "lz4"} THEN <<[off |-> off, c |-> c]>> ELSE <<>>)
         \o Payloads(Tail(f), off + c.n)

\* Entry i (from 0) of the index table as stored in a file.
FileEntry(f, i) == f[i + 2].a[1]

\* C1: round trip. With auto alignment, block size 2048 and a threshold in
\* 1..100, compress_zso does not fail, decompress_zso of the file it produced
\* neither fails nor hangs, and the decoded output equals the image.
C1_RoundTrip ==
    (align_val = None /\ bsize = DEFAULT_BLOCK_SIZE /\ DocumentedThreshold
     /\ tail = 0)
    => /\ pc # "c_err"
       /\ (InDecode /\ Unedited)
          => /\ pc \notin {"d_err", "d_hang"}
             /\ pc = "d_done" => out = ImageBytes

\* C2: no block is ever committed plain at a shifted offset that has the flag
\* bit set, and no successfully produced file has a block whose shifted
\* offset reaches 2^FlagBit.
C2_PlainOverflowFails ==
    LET ps == Payloads(fout, 0) IN
    /\ \A i \in 1 .. Len(ps) :
         ~(ps[i].c.k = "raw" /\ HasPlainBit(ShiftRight(ps[i].off, align)))
    /\ Produced
       => \A i \in 1 .. Len(ps) : ShiftRight(ps[i].off, align) < PLAIN_FLAG

\* The header fields as the format defines them: the version is an unsigned
\* byte.
BadHeaderBytes(f) ==
    LET h == f[1].a IN
    \/ h[1] # ZISO_MAGIC \/ h[2] # HEADER_SIZE \/ h[4] = 0 \/ h[3] = 0
    \/ h[5] > 1

\* C3: decompress_zso ends in the format error, with no index entry read and
\* no byte written, exactly when the header has a wrong magic, a header size
\* other than 24, a zero block size, a zero total size or a version above 1.
C3_HeaderRejection ==
    InDecode
    => /\ (pc = "d_err" /\ err = "FormatError") <=> BadHeaderBytes(zso)
       /\ BadHeaderBytes(zso) => d_index_buf = <<>> /\ out = <<>>

\* C4: every version byte in 2..255 is rejected with the format error.
C4_VersionByte ==
    (InDecode /\ zso[1].a[5] \in 2 .. 255)
    => pc = "d_err" /\ err = "FormatError"

\* C5: in every state of the decoder the output holds d_block whole blocks,
\* and a decoded payload of another length than block_size ends the call in
\* the block error with d_block still at that block.
C5_NoSilentCorruption ==
    InDecode
    => /\ ByteLen(out) = d_block * HBlockSize(d_header)
       /\ (d_dec_len # None /\ d_dec_len # HBlockSize(d_header))
          => pc = "d_err" /\ err = "BlockError"

\* A later block decodes to the wrong length after earlier blocks were written.
C5_Witness ==
    /\ pc = "d_err" /\ err = "BlockError"
    /\ d_block > 0 /\ d_dec_len # None /\ d_dec_len # HBlockSize(d_header)
    /\ ByteLen(out) = d_block * HBlockSize(d_header)

\* Whether compress_zso is to store block i (from 1) of the image plain.
ExpectPlain(i) ==
    100 * CompLen(image[i], bsize, Lz4Mode(level)) >= threshold * bsize

\* C6: plain fallback. In every successfully produced file (threshold in
\* 1..100) block i is emitted raw with the flag bit set in its entry exactly
\* when 100 * compressed_len / block_size >= threshold; otherwise its LZ4
\* output is emitted and the flag bit is clear.
C6_PlainFallback ==
    (Produced /\ DocumentedThreshold)
    => LET ps == Payloads(fout, 0) IN
       /\ Len(ps) = total_block
       /\ \A i \in 1 .. total_block :
            IF ExpectPlain(i)
            THEN /\ HasPlainBit(FileEntry(fout, i - 1))
                 /\ ps[i].c = RawChunk(image[i], bsize)
            ELSE /\ ~HasPlainBit(FileEntry(fout, i - 1))
                 /\ ps[i].c = Lz4Chunk(image[i], bsize, Lz4Mode(level))

\* A produced file that holds a plain and a compressed block.
C6_Witness ==
    /\ Produced /\ DocumentedThreshold
    /\ \E i, j \in 1 .. total_block :
         /\ ExpectPlain(i) /\ HasPlainBit(FileEntry(fout, i - 1))
         /\ ~ExpectPlain(j) /\ ~HasPlainBit(FileEntry(fout, j - 1))

\* C7: index monotonicity. In every successfully produced file the low bits
\* of entry i are at most the low bits of entry i + 1, for every i < N.
C7_IndexMonotone ==
    Produced
    => \A i \in 0 .. total_block - 1 :
         LowBits(FileEntry(fout, i)) <= LowBits(FileEntry(fout, i + 1))

\* C8: sentinel exactness. In every successfully produced file the low bits
\* of the sentinel entry, shifted left by align, equal the file length.
C8_SentinelExact ==
    Produced
    => ShiftLeft(LowBits(FileEntry(fout, total_block)), align) = ByteLen(fout)

\* The first multiple of 1 << al at or after pos.
AlignUp(pos, al) == ((pos + Pow2(al) - 1) \div Pow2(al)) * Pow2(al)

\* C9: alignment obedience. In every successfully produced file the payload
\* of block i starts at (entry[i] low bits) << align, a multiple of
\* 1 << align; block 0 starts at the first such multiple at or after the end
\* of the index table; what lies between payloads is fewer than 1 << align
\* padding bytes.
C9_AlignmentObeyed ==
    Produced
    => LET ps == Payloads(fout, 0) IN
       /\ Len(ps) = total_block
       /\ \A i \in 1 .. total_block :
            /\ ps[i].off = ShiftLeft(LowBits(FileEntry(fout, i - 1)), align)
            /\ ps[i].off % Pow2(align) = 0
       /\ total_block > 0
          => ps[1].off = AlignUp(HEADER_SIZE + ENTRY_SIZE * (total_block + 1), align)
       /\ \A j \in total_block + 3 .. Len(fout) :
            fout[j].k = "pad"
            => /\ fout[j].a[1] = padding_byte
               /\ fout[j].n < Pow2(align)
               /\ j < Len(fout) /\ fout[j + 1].k \in {"raw", "lz4"}
               /\ fout[j - 1].k # "pad"
       /\ \A j \in 1 .. Len(fout) :
            fout[j].k \in {"hdr", "idx", "pad", "raw", "lz4"}

\* The sequential loop as a function: the encoder state after k passes.
RECURSIVE SeqAfter(_)
SeqAfter(k) ==
    IF k = 0
    THEN [err |-> "", index_buf |-> [i \in 1 .. total_block + 1 |-> 0],
          fout |-> StartFile(total_bytes, bsize, align),
          write_pos |-> ByteLen(StartFile(total_bytes, bsize, align)),
          block |-> 0]
    ELSE LET st == SeqAfter(k - 1) IN
         IF st.err # "" \/ st.block >= total_block THEN st
         ELSE CommitBlock(st.fout, st.write_pos, st.index_buf, st.block,
                          RawChunk(image[st.block + 1], bsize),
                          lz4_compress(RawChunk(image[st.block + 1], bsize), level),
                          SeqThreshold(threshold), align, padding_byte)

\* What compress_zso with mp=False leaves for the same arguments.
SeqFinal ==
    LET st == SeqAfter(total_block) IN
    IF st.err # "" THEN [fout |-> st.fout, err |-> st.err]
    ELSE LET r == FinishIndex(st.fout, st.write_pos, st.index_buf,
                              st.block, align)
         IN  [fout |-> r.fout, err |-> r.err]

\* C10: output determinism of the pool loop. Whatever the order in which the
\* workers finish, after committing `block` blocks the pool loop has written
\* what the sequential loop has written after `block` passes (so blocks are
\* committed in increasing index), and the file it ends with, or the error,
\* is that of mp=False (threshold in 1..100).
C10_ParallelDeterminism ==
    (mp /\ DocumentedThreshold)
    => /\ pc \in {"c_loop", "c_wait", "c_commit"}
          => LET st == SeqAfter(block) IN
             /\ st.block = block /\ st.err = ""
             /\ fout = st.fout /\ index_buf = st.index_buf
             /\ write_pos = st.write_pos
       /\ (pc = "c_err" \/ Produced)
          => fout = SeqFinal.fout /\ (pc = "c_err" => err = SeqFinal.err)
                                  /\ (Produced => SeqFinal.err = "")

\* A batch of two different blocks whose workers finished in reverse order
\* has been committed and the file is complete.
C10_Witness ==
    /\ mp /\ DocumentedThreshold /\ pc = "c_done"
    /\ Len(done_order) >= 2 /\ done_order[1] > done_order[2]
    /\ iso_data[1] # iso_data[2]
    /\ fout = SeqFinal.fout

\* compress_zso or decompress_zso has returned or raised.
Returned == pc \in {"c_done", "c_err", "c_ioerr", "d_done", "d_err", "d_ioerr"}

\* C11: handle release. Once compress_zso or decompress_zso has returned or
\* raised, no handle it opened is open; a handle was never opened exactly when
\* the error is that of the open that failed first; and the error propagated
\* is the one of the step that ended the call (none on a normal return).
C11_HandleRelease ==
    Returned
    => /\ fin_h # "open" /\ fout_h # "open"
       /\ fin_h = "none" <=> err = "CannotOpenInput"
       /\ fout_h = "none" <=> err \in {"CannotOpenInput", "CannotCreateOutput"}
       /\ err = "" <=> pc \in {"c_done", "d_done"}
       /\ pc \in {"c_ioerr", "d_ioerr"}
          <=> err \in {"CannotOpenInput", "CannotCreateOutput", "IoError"}

\* decompress_zso could open its input but not create its output.
C11_Witness ==
    /\ pc = "d_ioerr" /\ err = "CannotCreateOutput"
    /\ fin_h = "closed" /\ fout_h = "none"

\* compress_zso is under way.
InEncode == pc \in {"c_loop", "c_wait", "c_commit"}

\* C12: worker pool lifetime. Once compress_zso has returned or raised, the
\* pool it created is no longer alive.
C12_PoolTornDown == (pc # "idle" /\ ~InEncode) => pool # "alive"

\* C13: the retry loop of lz4_decompress ends for every slice it is given:
\* decompress_zso is never left inside it for good.
C13_RetryTerminates == pc # "d_hang"

\* compress_zso is under way or was the last call to end.
EncodeCall == InEncode \/ pc \in {"c_done", "c_err", "c_ioerr"}

\* C14: encoder progress contract. With a callback, call i (from 1) reports
\* blocks_done = (i - 1) * B, where B is 1 in the sequential loop and MP_NR
\* in the pool loop, the total number of blocks, and a write_pos equal to the
\* length of the output at that time, which is the end of the payload of
\* block blocks_done - 1 (the end of the index table for the first call): the
\* padding and the payload of the blocks it announces are not yet written.
\* No block is committed before the call of its pass, a pass begins only when
\* the one before is committed, and between passes every pass begun is
\* committed whole.  Without a callback there is no call.
C14_EncoderProgress ==
    /\ ~progress_callback => calls = <<>>
    /\ (progress_callback /\ EncodeCall)
       => LET B == IF mp THEN MP_NR ELSE 1
              ps == Payloads(fout, 0)
          IN  /\ \A i \in 1 .. Len(calls) :
                   LET c == calls[i] IN
                   /\ c.done = (i - 1) * B /\ c.done < total_block
                   /\ c.total = total_block
                   /\ c.write_pos = c.written
                   /\ c.written =
                        IF c.done = 0
                        THEN HEADER_SIZE + ENTRY_SIZE * (total_block + 1)
                        ELSE ps[c.done].off + ps[c.done].c.n
              /\ (Len(calls) - 1) * B <= block /\ block <= Len(calls) * B
              /\ pc \in {"c_loop", "c_done"}
                 => block = Min(Len(calls) * B, total_block)

\* The pool loop has compressed three blocks in a batch of MP_NR and a batch
\* of the rest, with one call before each.
C14_Witness ==
    /\ progress_callback /\ mp /\ pc = "c_done"
    /\ total_block > MP_NR /\ total_block < 2 * MP_NR
    /\ Len(calls) = 2 /\ calls[2].done = MP_NR
    /\ calls[2].write_pos > calls[1].write_pos

\* C15 as stated: whenever the callback of decompress_zso is given i, the
\* output already holds (i + 1) * block_size bytes.
C15_ProgressAfterAppend ==
    (progress_callback /\ InDecode)
    => \A i \in 1 .. Len(calls) :
         calls[i].written = (calls[i].done + 1) * HBlockSize(d_header)

\* C15, amended: decompress_zso calls progress(i, total_block) once per
\* pass, at the head of the pass, for i = 0, 1, ... in order: block i is not
\* yet read and the output holds i * block_size bytes.  A pass that fails or
\* never ends has made its call; a header or index error comes before any.
C15_ProgressBeforeRead ==
    (progress_callback /\ InDecode)
    => LET n == HTotalBytes(d_header) \div HBlockSize(d_header) IN
       /\ \A i \in 1 .. Len(calls) :
            /\ calls[i].done = i - 1 /\ calls[i].total = n
            /\ calls[i].written = calls[i].done * HBlockSize(d_header)
       /\ Len(calls) =
            IF pc \in {"d_loop", "d_done"} THEN d_block
            ELSE IF pc = "d_err" /\ err \in {"FormatError", "StructError"} THEN 0
            ELSE d_block + 1

\* The last call of a complete decode of three blocks.
C15_Witness ==
    /\ progress_callback /\ pc = "d_done" /\ Len(calls) = 3
    /\ calls[3].done = 2 /\ calls[3].written = 2 * HBlockSize(d_header)
    /\ ByteLen(out) = 3 * HBlockSize(d_header)

\* C16 as stated: without a callback nothing is printed.
C16_NoProgressOutput == ~progress_callback => stderr_lines = 0

\* C16, amended: with a callback nothing is printed; without one, and with
\* at most 100 blocks, every pass of either loop prints one progress line to
\* sys.stderr at its head (the pool loop: one per batch) and resets
\* percent_cnt; before the first pass nothing is printed.
C16_ProgressLines ==
    /\ progress_callback => stderr_lines = 0
    /\ (~progress_callback /\ EncodeCall)
       => LET B == IF mp THEN MP_NR ELSE 1 IN
          /\ percent_cnt = 0
          /\ (stderr_lines - 1) * B <= block /\ block <= stderr_lines * B
          /\ pc \in {"c_loop", "c_done"}
             => block = Min(stderr_lines * B, total_block)
    /\ (~progress_callback /\ InDecode)
       => /\ percent_cnt = 0
          /\ stderr_lines =
               IF pc \in {"d_loop", "d_done"} THEN d_block
               ELSE IF pc = "d_err" /\ err \in {"FormatError", "StructError"}
               THEN 0
               ELSE d_block + 1

\* A sequential encode of three blocks without a callback has printed three
\* lines.
C16_Witness ==
    /\ ~progress_callback /\ ~mp /\ pc = "c_done"
    /\ total_block = 3 /\ stderr_lines = 3

\* C17: trailing partial block. For an input whose length is not a multiple
\* of the block size: compress_zso never reads past the last whole block; a
\* file it produced has total_bytes = len(S) in its header, N + 1 index
\* entries and the payloads of the N = len(S) // block_size whole blocks and
\* nothing of the partial one; and decompress_zso of that file neither fails
\* nor hangs and yields the N whole blocks of S.
C17_TrailingPartialBlock ==
    tail > 0
    => /\ fin_pos <= Len(image) * bsize
       /\ Produced
          => LET ps == Payloads(fout, 0) IN
             /\ fout[1].a[3] = Len(image) * bsize + tail
             /\ total_block = Len(image)
             /\ Cardinality({j \in 1 .. Len(fout) : fout[j].k = "idx"})
                = Len(image) + 1
             /\ Len(ps) = Len(image)
             /\ \A i \in 1 .. Len(ps) : ps[i].c.a[1] = image[i]
       /\ (InDecode /\ Unedited)
          => /\ pc \notin {"d_err", "d_hang"}
             /\ pc = "d_done" => out = ImageBytes

\* The block sizes of the format.
DocumentedBlockSizes == {2048, 4096, 6144, 8192}

\* C18: block-size validation. A command-line run whose block size is not
\* one of 2048, 4096, 6144, 8192 ends in parse_args: compress_zso is not
\* called and no file is opened.
C18_BlockSizeValidated ==
    (argv.cli /\ argv.b # None /\ argv.b \notin DocumentedBlockSizes)
    => pc = "cli_exit" /\ fin_h = "none" /\ fout_h = "none"

\* Offset in f of its chunk j.
OffsetOf(f, j) == ByteLen(SubSeq(f, 1, j - 1))

\* C19: alignment selection. Once compress_zso has written its header (block
\* size above 0), with a the align_val given or, if none, the number of whole
\* 2^FlagBit in total_bytes: a is the align of the header; every payload
\* written starts at a multiple of 2^a and its entry is its offset shifted
\* right by a (with the plain flag for a raw payload); every run of padding is
\* the shortest that ends on a multiple of 2^a; and the sentinel of a file
\* produced is its length shifted right by a.
C19_AlignmentSelection ==
    (Len(fout) > 0 /\ bsize > 0)
    => \E a \in 0 .. 255 :
         LET ps == Payloads(fout, 0) IN
         /\ IF align_val # None THEN a = align_val
            ELSE a * PLAIN_FLAG <= total_bytes
                 /\ total_bytes < (a + 1) * PLAIN_FLAG
         /\ fout[1].a[6] = a
         /\ \A i \in 1 .. Len(ps) :
              /\ ps[i].off % Pow2(a) = 0
              /\ index_buf[i] = IF ps[i].c.k = "raw"
                                THEN OrPlainBit(ShiftRight(ps[i].off, a))
                                ELSE ShiftRight(ps[i].off, a)
         /\ \A j \in 1 .. Len(fout) :
              fout[j].k = "pad"
              => /\ fout[j].n < Pow2(a)
                 /\ (OffsetOf(fout, j) + fout[j].n) % Pow2(a) = 0
         /\ Produced
            => /\ FileEntry(fout, total_block) = ShiftRight(ByteLen(fout), a)
               /\ \A i \in 1 .. total_block :
                    FileEntry(fout, i - 1) = index_buf[i]

\* An input of exactly 2^FlagBit bytes compressed with no align_val: align 1
\* is in the header and a payload of odd length was followed by padding.
C19_Witness ==
    /\ Produced /\ align_val = None /\ total_bytes = PLAIN_FLAG
    /\ fout[1].a[6] = 1
    /\ \E j \in 1 .. Len(fout) : fout[j].k = "pad" /\ fout[j].n = 1

\* C20: alignment error. No compressed payload is ever written at an offset
\* whose entry has the flag bit set.  compress_zso ends in the alignment
\* error only at a block that the threshold test keeps compressed and whose
\* entry, the aligned write position shifted right by align, has the flag
\* bit set; then the output ends with the payloads of the blocks before it
\* (and the padding up to the position refused), nothing of that block or of a
\* later one is written, and every entry of the index table in the file is
\* still zero.
C20_AlignErrorImmediate ==
    LET ps == Payloads(fout, 0) IN
    /\ \A i \in 1 .. Len(ps) :
         ps[i].c.k = "lz4" => ~HasPlainBit(ShiftRight(ps[i].off, align))
    /\ (pc = "c_err" /\ err = "AlignError")
       => /\ block < total_block
          /\ ~AboveThreshold(CompLen(image[block + 1], bsize, Lz4Mode(level)),
                             bsize,
                             IF mp THEN MpThreshold(threshold)
                             ELSE SeqThreshold(threshold))
          /\ index_buf[block + 1] = ShiftRight(ByteLen(fout), align)
          /\ ByteLen(fout) % Pow2(align) = 0
          /\ HasPlainBit(index_buf[block + 1])
          /\ Len(ps) = block
          /\ \A i \in 1 .. Len(ps) : ps[i].c.a[1] = image[i]
          /\ fout[Len(fout)].k \in {"raw", "lz4", "pad"}
          /\ \A j \in 1 .. Len(fout) : fout[j].k = "idx" => fout[j] = IdxChunk(0)

\* The pool loop refused its third block after committing a batch of two.
C20_Witness ==
    /\ pc = "c_err" /\ err = "AlignError" /\ mp
    /\ block = 2 /\ Len(Payloads(fout, 0)) = 2
    /\ FileEntry(fout, 0) = 0

\* The index table of the output, as it is in the file, holds only zeros.
IndexStillZero ==
    \A j \in 1 .. Len(fout) : fout[j].k = "idx" => fout[j] = IdxChunk(0)

\* compress_zso ended in an error.
EncodeFailed == pc \in {"c_err", "c_ioerr"}

\* C21: index published last. While compress_zso is under way, and once it
\* has ended in an error, every entry of the index table in the output file
\* is zero; a non-zero entry is in the file only if every block has been
\* appended.
C21_IndexPublishedLast ==
    /\ (InEncode \/ EncodeFailed) => IndexStillZero
    /\ (~IndexStillZero /\ bsize > 0)
       => block = total_block /\ Len(Payloads(fout, 0)) = total_block

\* C22: threshold clamp. With a threshold above 100, in either loop, every
\* block committed is stored plain exactly when it would be with a threshold
\* of 100: when its LZ4 output is at least as long as the block.
C22_ThresholdClamp ==
    (threshold > 100 /\ bsize > 0)
    => LET ps == Payloads(fout, 0) IN
       \A i \in 1 .. Len(ps) :
         ps[i].c.k = "raw"
         <=> AboveThreshold(CompLen(image[i], bsize, Lz4Mode(level)), bsize, 100)

\* The byte range decompress_zso requests for block i (from 0) of file f.
FileWindow(f, i) ==
    LET h == read_zso_header(f)
        n == HTotalBytes(h) \div HBlockSize(h)
    IN  ReadWindow(h, [k \in 1 .. n + 1 |-> ReadEntry(f, k - 1)], i)

\* The range of block i is not of negative size and holds the whole payload
\* of the block first and then nothing but padding.
WindowCovers(f, i) ==
    LET w == FileWindow(f, i)
        data == Slice(f, w.read_pos, w.read_size)
    IN  /\ w.read_size >= 0
        /\ data # <<>>
        /\ data[1] = Payloads(f, 0)[i + 1].c
        /\ \A j \in 2 .. Len(data) : data[j].k = "pad"

\* C23: decoder read window. In every file compress_zso produced, the range
\* decompress_zso requests for a block stored compressed is of non-negative
\* size and holds the whole payload of the block, followed only by padding.
C23_ReadWindowCovers ==
    Produced
    => \A i \in 0 .. total_block - 1 :
         ~HasPlainBit(FileEntry(fout, i)) => WindowCovers(fout, i)

\* The open of compress_zso or decompress_zso failed.
OpenFailed ==
    pc \in {"c_ioerr", "d_ioerr"}
    /\ err \in {"CannotOpenInput", "CannotCreateOutput"}

\* C24: open ordering. When the input cannot be opened the call fails with
\* the cannot-open error, whether or not the output could have been created,
\* and the destination path is as it was before the call: not created if it
\* was absent, not truncated if it existed.  When the input is opened and
\* the output cannot be created, the call fails with the cannot-create error,
\* the input handle is closed and the destination is as it was.
C24_OpenOrdering ==
    OpenFailed
    => /\ ~attempt.in_ok
          => /\ err = "CannotOpenInput"
             /\ dest = attempt.before
             /\ fin_h = "none" /\ fout_h = "none"
       /\ (attempt.in_ok /\ ~attempt.out_ok)
          => /\ err = "CannotCreateOutput"
             /\ dest = attempt.before
             /\ fin_h = "closed" /\ fout_h = "none"
       /\ ~(attempt.in_ok /\ attempt.out_ok)

\* decompress_zso could not open its input while its destination existed and
\* could have been opened: the destination still holds what it held.
C24_Witness ==
    /\ pc = "d_ioerr" /\ err = "CannotOpenInput"
    /\ ~attempt.in_ok /\ attempt.out_ok /\ attempt.before = "old"
    /\ dest = "old" /\ fout_h = "none"

\* finish_processing is queued.
FinishQueued == \E j \in 1 .. Len(idle) : idle[j].cb = "finish"

\* C25: single worker. At most one worker thread exists; one exists only
\* while processing is true; a thread is started only by a step that finds
\* processing false and sets it, so a click while processing starts none and
\* leaves the tasks gathered as they are; processing goes back to false only
\* when the main loop runs finish_processing, which is queued only once the
\* worker has gone through every task it was given and has ended.
C25_SingleWorker ==
    /\ [](Len(threads) <= 1)
    /\ [](threads # <<>> => processing)
    /\ [][Len(threads') > Len(threads) => ~processing /\ processing']_vars
    /\ [][processing => (processing' => run_tasks' = run_tasks)]_vars
    /\ [][(processing /\ ~processing')
          => idle # <<>> /\ Head(idle).cb = "finish" /\ threads = <<>>]_vars
    /\ [](FinishQueued
          => threads = <<>> /\ processing
             /\ [j \in 1 .. Len(worklog) |-> worklog[j].f] = run_tasks)

\* A second worker is running after the first has finished: a row still
\* shows "Completed" and the new worker has not yet taken a task.
C25_Witness ==
    /\ processing /\ Len(threads) = 1 /\ worklog = <<>>
    /\ \E f \in Files : subtitle[f] = "Completed"

\* The status the row of a task is to show once the run is over.
FinalStatus(e) ==
    IF e.fn = "" THEN "Ignored"
    ELSE IF Raises(e.out) THEN "Error" ELSE "Completed"

\* C26: queue progress. The worker takes the tasks gathered at the click in
\* list order; a file whose extension is the target format is not given to a
\* converter, any other is given to the converter of the target format; when
\* processing goes back to false every task has been taken, a file already in
\* the target format shows "Ignored" and a file whose conversion raised shows
\* "Error"; and whenever processing is true it later becomes false.
C26_QueueProgress ==
    /\ [](/\ Len(worklog) <= Len(run_tasks)
          /\ \A j \in 1 .. Len(worklog) :
               /\ worklog[j].f = run_tasks[j]
               /\ worklog[j].fn =
                    IF AlreadyTarget(worklog[j].fmt, file_ext(worklog[j].f))
                    THEN ""
                    ELSE IF worklog[j].fmt = "zso" THEN "compress_zso"
                    ELSE "decompress_zso")
    /\ [][(processing /\ ~processing')
          => /\ Len(worklog) = Len(run_tasks)
             /\ \A j \in 1 .. Len(worklog) :
                  subtitle[worklog[j].f] = FinalStatus(worklog[j])]_vars
    /\ (processing ~> ~processing)

====
